---- MODULE Spec2Model ----
(***************************************************************************)
(* A model of descriptors/texture.py: the textural descriptors (Gabor,     *)
(* GLCM, LBP, MFS, HOG, Hist), their dist() functions and compactness().   *)
(*                                                                         *)
(* A call is one action.  The state holds the interpreter the module runs  *)
(* under (build), the descriptor instance (self), the caller's array       *)
(* (image), the call made (call), its outcome (ret), the values the        *)
(* callee's local variables held when it ended (frame) and the first       *)
(* compute call of the run (first).  TLA+ has no reals: grey values are    *)
(* held in 1/Q units, and the one stage of MFS that needs logarithms of    *)
(* image data, the density regression, takes its results from slope.       *)
(***************************************************************************)
EXTENDS Integers, Sequences, FiniteSets, TLC

VARIABLES build, slope, self, image, call, ret, frame, first

vars == <<build, slope, self, image, call, ret, frame, first>>

(***************************************************************************)
(* Bounds of the model.                                                    *)
(***************************************************************************)
MaxFt == 2          \* feature vectors passed to dist have 1..MaxFt entries

(***************************************************************************)
(* Outcomes of a call.                                                     *)
(***************************************************************************)
NoValue == <<>>

Return(v) == [kind |-> "return", exc |-> "", val |-> v]

Raise(e) == [kind |-> "raise", exc |-> e, val |-> NoValue]

NoCall == [kind |-> "none", exc |-> "", val |-> NoValue]

NoFrame == [fn |-> "none"]

\* The error kind the specification calls InvalidArgument is Python's ValueError.
InvalidArgument == "ValueError"

(***************************************************************************)
(* The interpreter.  Three properties of it change what the module does:   *)
(*   optimize     python -O strips assert statements;                      *)
(*   float_index  NumPy before 1.12 truncates a float slice bound with a   *)
(*                DeprecationWarning, later NumPy raises TypeError;        *)
(*   py3          round() ties go to the even neighbour on Python 3 and    *)
(*                away from zero on Python 2.                              *)
(* The module imports skimage.filter, which only the releases of           *)
(* scikit-image before 0.13 have: the library's behaviour is theirs.       *)
(***************************************************************************)
Builds == [optimize : BOOLEAN, float_index : BOOLEAN, py3 : BOOLEAN]

DefaultBuild == [optimize |-> FALSE, float_index |-> TRUE, py3 |-> FALSE]

(***************************************************************************)
(* dist(): the method argument.  A Python value is a string or None; a     *)
(* call may also leave the argument out, and the default is then used.     *)
(***************************************************************************)
Str(s) == [t |-> "str", s |-> s]

None == [t |-> "None", s |-> ""]

Omitted == [t |-> "omitted", s |-> ""]

\* str.lower() on the strings the model passes.
Lower(s) ==
    CASE s = "Euclidean" -> "euclidean"
      [] s = "EUCLIDEAN" -> "euclidean"
      [] s = "Cosine"    -> "cosine"
      [] s = "BH"        -> "bh"
      [] s = "Kl"        -> "kl"
      [] OTHER           -> s

MethodStrings ==
    {"euclidean", "cosine", "kl", "js", "bh", "ma",
     "Euclidean", "EUCLIDEAN", "Cosine", "BH", "Kl",
     "manhattan", "l2", ""}

MethodArgs == {Str(s) : s \in MethodStrings} \cup {Omitted}

\* The keys of the dm dictionary of each class.
VectorMethods == {"euclidean", "cosine"}

HistogramMethods == {"kl", "js", "bh", "ma"}

Classes == {"Gabor", "GLCM", "LBP", "MFS", "HOG", "Hist"}

dm(cls) == IF cls \in {"Gabor", "MFS", "HOG"} THEN VectorMethods ELSE HistogramMethods

\* The default of the method parameter in each signature.
DefaultMethod(cls) ==
    CASE cls = "Gabor" -> Str("Euclidean")
      [] cls = "GLCM"  -> Str("bh")
      [] cls = "LBP"   -> Str("bh")
      [] cls = "MFS"   -> Str("euclidean")
      [] cls = "HOG"   -> None
      [] cls = "Hist"  -> Str("bh")

Bound(cls, m) == IF m = Omitted THEN DefaultMethod(cls) ELSE m

(***************************************************************************)
(* Feature arrays, as far as dist() looks at them: ndim and size.  A GLCM  *)
(* feature set is a dictionary; keys holds its keys.                       *)
(***************************************************************************)
FeatNames == {"dissimilarity", "correlation"}

Feats == [ndim : 1..2, size : 1..MaxFt, keys : {FeatNames}]

GLCMFeats == [ndim : {1}, size : {MaxFt}, keys : SUBSET FeatNames]

\* NumPy applies the chosen lambda.  Arrays of one shape always combine; a
\* one-element vector broadcasts against a longer one in the element-wise
\* formulas but not in dot(); anything else is NumPy's ValueError.
ApplyMethod(m, ft1, ft2) ==
    IF ft1.ndim = ft2.ndim /\ ft1.size = ft2.size
    THEN Return([method |-> m, a |-> ft1, b |-> ft2])
    ELSE IF ft1.ndim = 1 /\ ft2.ndim = 1 /\ (ft1.size = 1 \/ ft2.size = 1) /\ m # "cosine"
         THEN Return([method |-> m, a |-> ft1, b |-> ft2])
         ELSE Raise("ValueError")

\* method = method.lower(); if method not in dm.keys(): raise ValueError
LookupMethod(cls, m, ft1, ft2) ==
    IF m.t # "str"
    THEN Raise("AttributeError")
    ELSE IF Lower(m.s) \notin dm(cls)
         THEN Raise("ValueError")
         ELSE ApplyMethod(Lower(m.s), ft1, ft2)

GaborDescriptor_dist(ft1, ft2, method) == LookupMethod("Gabor", method, ft1, ft2)

\* The per-key loop: a key of ft1 that ft2 has too gets a distance.
GLCMDescriptor_dist(ft1, ft2, method) ==
    IF method.t # "str"
    THEN Raise("AttributeError")
    ELSE IF Lower(method.s) \notin dm("GLCM")
         THEN Raise("ValueError")
         ELSE Return([method |-> Lower(method.s), keys |-> ft1.keys \cap ft2.keys])

LBPDescriptor_dist(ft1, ft2, method) == LookupMethod("LBP", method, ft1, ft2)

\* The two assert statements come first.
MFSDescriptor_dist(b, ft1, ft2, method) ==
    IF ~b.optimize /\ ~(ft1.ndim = ft2.ndim /\ ft2.ndim = 1)
    THEN Raise("AssertionError")
    ELSE IF ~b.optimize /\ ft1.size # ft2.size
         THEN Raise("AssertionError")
         ELSE LookupMethod("MFS", method, ft1, ft2)

HOGDescriptor_dist(ft1, ft2, method) == LookupMethod("HOG", method, ft1, ft2)

HistDescriptor_dist(ft1, ft2, method) == LookupMethod("Hist", method, ft1, ft2)

(***************************************************************************)
(* The dist() calls.                                                       *)
(***************************************************************************)
DistCall(cls, ft1, ft2, m) ==
    [fn |-> "dist", cls |-> cls, ft1 |-> ft1, ft2 |-> ft2, method |-> m]

GaborDist ==
    \E ft1 \in Feats, ft2 \in Feats, m \in MethodArgs :
        /\ call' = DistCall("Gabor", ft1, ft2, m)
        /\ ret' = GaborDescriptor_dist(ft1, ft2, Bound("Gabor", m))
        /\ frame' = [fn |-> "dist"]
        /\ UNCHANGED <<build, slope, self, image, first>>

GLCMDist ==
    \E ft1 \in GLCMFeats, ft2 \in GLCMFeats, m \in MethodArgs :
        /\ call' = DistCall("GLCM", ft1, ft2, m)
        /\ ret' = GLCMDescriptor_dist(ft1, ft2, Bound("GLCM", m))
        /\ frame' = [fn |-> "dist"]
        /\ UNCHANGED <<build, slope, self, image, first>>

LBPDist ==
    \E ft1 \in Feats, ft2 \in Feats, m \in MethodArgs :
        /\ call' = DistCall("LBP", ft1, ft2, m)
        /\ ret' = LBPDescriptor_dist(ft1, ft2, Bound("LBP", m))
        /\ frame' = [fn |-> "dist"]
        /\ UNCHANGED <<build, slope, self, image, first>>

MFSDist ==
    \E ft1 \in Feats, ft2 \in Feats, m \in MethodArgs :
        /\ call' = DistCall("MFS", ft1, ft2, m)
        /\ ret' = MFSDescriptor_dist(build, ft1, ft2, Bound("MFS", m))
        /\ frame' = [fn |-> "dist"]
        /\ UNCHANGED <<build, slope, self, image, first>>

HOGDist ==
    \E ft1 \in Feats, ft2 \in Feats, m \in MethodArgs :
        /\ call' = DistCall("HOG", ft1, ft2, m)
        /\ ret' = HOGDescriptor_dist(ft1, ft2, Bound("HOG", m))
        /\ frame' = [fn |-> "dist"]
        /\ UNCHANGED <<build, slope, self, image, first>>

HistDist ==
    \E ft1 \in Feats, ft2 \in Feats, m \in MethodArgs :
        /\ call' = DistCall("Hist", ft1, ft2, m)
        /\ ret' = HistDescriptor_dist(ft1, ft2, Bound("Hist", m))
        /\ frame' = [fn |-> "dist"]
        /\ UNCHANGED <<build, slope, self, image, first>>

NoImage == [ndim |-> 0, shape |-> <<>>, px |-> <<>>]

NoSelf == [cls |-> "none"]

NoFirst == [set |-> FALSE]

NoSlope == [b \in BOOLEAN |-> 0]

\* dist() is a static method: no instance, no image.
InitDist ==
    /\ build \in {b \in Builds : b.float_index /\ ~b.py3}     \* dist() slices and rounds nothing
    /\ slope = NoSlope
    /\ self = NoSelf
    /\ image = NoImage
    /\ call = [fn |-> "none"]
    /\ ret = NoCall
    /\ frame = NoFrame
    /\ first = NoFirst

NextDist == GaborDist \/ GLCMDist \/ LBPDist \/ MFSDist \/ HOGDist \/ HistDist

SpecDist == InitDist /\ [][NextDist]_vars

(***************************************************************************)
(* C1.  For every descriptor type, dist() called on two comparable feature *)
(* vectors with a method that is not one of the descriptor's registered    *)
(* method names (compared as the code compares them, after lower-casing)   *)
(* fails with InvalidArgument and returns no distance; a call that leaves  *)
(* the method out passes the default of the signature.                     *)
(***************************************************************************)
Registered(cls, m) == m.t = "str" /\ Lower(m.s) \in dm(cls)

Comparable(ft1, ft2) == ft1.ndim = 1 /\ ft2.ndim = 1 /\ ft1.size = ft2.size

C1_UnknownMethodRejected ==
    (/\ call.fn = "dist"
     /\ Comparable(call.ft1, call.ft2)
     /\ ~Registered(call.cls, Bound(call.cls, call.method)))
        => (ret.kind = "raise" /\ ret.exc = InvalidArgument)

(***************************************************************************)
(* Numbers and arrays.                                                     *)
(*                                                                         *)
(* A grey value v is held as the integer v*Q, so that values between two   *)
(* integers exist; U(n) is the integer n in these units.  NaN is IEEE's    *)
(* not-a-number: every comparison with it is false.                        *)
(***************************************************************************)
Q == 2

U(n) == n * Q

NaN == -(2^20)

Max2(a, b) == IF a >= b THEN a ELSE b

Min2(a, b) == IF a <= b THEN a ELSE b

Lt(a, b) == a # NaN /\ b # NaN /\ a < b

Le(a, b) == a # NaN /\ b # NaN /\ a <= b

Ge(a, b) == a # NaN /\ b # NaN /\ a >= b

Gt(a, b) == a # NaN /\ b # NaN /\ a > b

Eq(a, b) == a # NaN /\ b # NaN /\ a = b

Abs(v) == IF v < 0 THEN -v ELSE v

\* ceil(a/b) for a >= 0, b > 0
CeilDiv(a, b) == (a + b - 1) \div b

\* The tuple <<f[lo], .., f[hi]>>
RECURSIVE TupleOf(_, _, _)
TupleOf(f, lo, hi) ==
    IF lo > hi THEN <<>>
    ELSE IF lo = hi THEN <<f[lo]>>
    ELSE LET mid == (lo + hi) \div 2
         IN  TupleOf(f, lo, mid) \o TupleOf(f, mid + 1, hi)

\* The tuple <<F(lo), .., F(hi)>>
Tabulate(lo, hi, F(_)) == TupleOf([i \in lo..hi |-> F(i)], lo, hi)

\* A 2-D array: h rows of w entries.  a[i][j] is the entry numpy calls [i-1, j-1].
Arr(h, w, F(_, _)) ==
    [h |-> h, w |-> w,
     a |-> Tabulate(1, h, LAMBDA i : Tabulate(1, w, LAMBDA j : F(i, j)))]

MapArr(A, F(_)) == Arr(A.h, A.w, LAMBDA i, j : F(A.a[i][j]))

Cells(A) == (1..A.h) \X (1..A.w)

HasNaN(A) == \E c \in Cells(A) : A.a[c[1]][c[2]] = NaN

\* The sum of row[lo..hi] (the range is halved to keep the evaluation shallow)
RECURSIVE SumRow(_, _, _)
SumRow(row, lo, hi) ==
    IF lo > hi THEN 0
    ELSE IF lo = hi THEN row[lo]
    ELSE LET mid == (lo + hi) \div 2
         IN  SumRow(row, lo, mid) + SumRow(row, mid + 1, hi)

\* ndarray.sum(): NaN as soon as one entry is NaN
SumArr(A) ==
    IF HasNaN(A) THEN NaN
    ELSE SumRow(Tabulate(1, A.h, LAMBDA i : SumRow(A.a[i], 1, A.w)), 1, A.h)

\* Python's max(x, 1): 1 replaces x only if 1 > x, so a NaN x stays
PyMax1(x) == IF Gt(1, x) THEN 1 ELSE x

\* A Python slice [start:stop] of a dimension of length len: the first index
\* taken (0-based) and the number of indices taken.
PyIndex(len, x) == IF x < 0 THEN Max2(x + len, 0) ELSE Min2(x, len)

PySlice(len, start, stop) ==
    [lo |-> PyIndex(len, start),
     n  |-> Max2(PyIndex(len, stop) - PyIndex(len, start), 0)]

\* A[r0:r1, c0:c1]
Crop(A, r0, r1, c0, c1) ==
    LET rs == PySlice(A.h, r0, r1)
        cs == PySlice(A.w, c0, c1)
    IN  Arr(rs.n, cs.n, LAMBDA i, j : A.a[rs.lo + i][cs.lo + j])

(***************************************************************************)
(* Images.  A 2-D image holds its pixels; of an array of another rank the  *)
(* code looks at ndim and shape only.                                      *)
(***************************************************************************)
Image2D(A) == [ndim |-> 2, shape |-> <<A.h, A.w>>, px |-> A.a]

Pixels(im) == [h |-> im.shape[1], w |-> im.shape[2], a |-> im.px]

(***************************************************************************)
(* MFSDescriptor                                                           *)
(***************************************************************************)
MFSDescriptor(nlevels_avg, wsize, niter) ==
    [cls |-> "MFS", nlevels_avg |-> nlevels_avg, wsize |-> wsize, niter |-> niter]

\* grayscale_box = [0, 255]
grayscale_lo == 0

grayscale_hi == 255

\* skimage.exposure.rescale_intensity(im, out_range=(0, 255)) of a float
\* image: (v - min) / float(max - min) * 255 + 0, which is 0/0 = NaN when the
\* image is constant.  The result is cut down to the model's grid.
rescale_intensity(A) ==
    LET all == {A.a[c[1]][c[2]] : c \in Cells(A)}
        imin == CHOOSE v \in all : \A x \in all : v <= x
        imax == CHOOSE v \in all : \A x \in all : v >= x
    IN  IF all = {} THEN A
        ELSE IF imin = imax THEN MapArr(A, LAMBDA v : NaN)
        ELSE MapArr(A, LAMBDA v :
                 ((v - imin) * U(grayscale_hi - grayscale_lo)) \div (imax - imin)
                     + U(grayscale_lo))

\* if abs(im).max() < 1: im = rescale_intensity(im, out_range=(0, 255))
Preprocess(A) ==
    IF \A c \in Cells(A) : Abs(A.a[c[1]][c[2]]) < U(1)
    THEN rescale_intensity(A)
    ELSE A

\* The convolutions of the density stage, as far as their shapes go.  Level
\* k >= 2 is convolve2d(bw[0], _gauss_krn(k+1), "full"), of shape
\* (H+k, W+k), cut by a slice and stored in bw[k], of shape (H, W).  For
\* k == 4 the slice ends at shape - (k/2): true division is in force
\* (from __future__ import division), so the bound is the float 2.0.
LevelSlice(b, k, len) ==
    IF k = 4
    THEN IF b.float_index
         THEN [exc |-> "", n |-> PySlice(len + k, k - 1 - 1, (len + k) - (k \div 2)).n]
         ELSE [exc |-> "TypeError", n |-> 0]
    ELSE [exc |-> "", n |-> PySlice(len + k, k - 1, (len + k) - 1).n]

RECURSIVE DensityLevels(_, _, _, _, _)
DensityLevels(b, k, n, H, W) ==
    IF k >= n THEN ""
    ELSE LET rs == LevelSlice(b, k, H)
             cs == LevelSlice(b, k, W)
         IN  IF rs.exc # "" THEN rs.exc
             ELSE IF rs.n # H \/ cs.n # W THEN "ValueError"
             ELSE DensityLevels(b, k + 1, n, H, W)

\* D = (n2*n - c.sum()*sum3) / (n1*n - c.sum()**2), rescaled from [1, 4] to
\* [0, 255]: a real number computed from logarithms of the smoothed image.
\* The model takes it from slope, by whether the pixel is in the brighter
\* half of the grey range.
Regression(A, sl) ==
    MapArr(A, LAMBDA v : IF v = NaN THEN NaN ELSE sl[v >= U(128)])

\* gap = np.ceil((grayscale_box[1] - grayscale_box[0]) / np.float32(self.wsize))
Gap(wsize) == CeilDiv(grayscale_hi - grayscale_lo, wsize)

bin_min(k, gap) == (k - 1) * gap

bin_max(k, gap) == k * gap - 1

\* round(x) of x = s/2: a tie goes away from zero on Python 2 and to the
\* even neighbour on Python 3.
RoundHalf(s, py3) ==
    IF s % 2 = 0 THEN s \div 2
    ELSE IF py3
         THEN (IF ((s - 1) \div 2) % 2 = 0 THEN (s - 1) \div 2 ELSE (s + 1) \div 2)
         ELSE (s + 1) \div 2

\* center[k-1] = round((bin_min + bin_max) / 2.0)
Center(k, gap, py3) == RoundHalf(bin_min(k, gap) + bin_max(k, gap), py3)

\* One pass of the loop body on one pixel:
\* D = ((D <= bin_max) & (D >= bin_min)).choose(D, center[k-1])
QuantizeStep(d, k, gap, py3) ==
    IF Le(d, U(bin_max(k, gap))) /\ Ge(d, U(bin_min(k, gap)))
    THEN U(Center(k, gap, py3))
    ELSE d

\* The passes k = lo..hi in order (the range is halved to keep the
\* evaluation shallow; the passes run in the loop's order).
RECURSIVE QuantizeLoop(_, _, _, _, _)
QuantizeLoop(d, lo, hi, gap, py3) ==
    IF lo > hi THEN d
    ELSE IF lo = hi THEN QuantizeStep(d, lo, gap, py3)
    ELSE LET mid  == (lo + hi) \div 2
             half == QuantizeLoop(d, lo, mid, gap, py3)
         IN  IF half = NaN THEN NaN       \* NaN fails every comparison
             ELSE QuantizeLoop(half, mid + 1, hi, gap, py3)

\* After the loop bin_max is the last bin's:
\* D = ((D >= bin_max)).choose(D, 0);  D = ((D < 0)).choose(D, 0)
ClipHigh(d, wsize, gap) == IF Ge(d, U(bin_max(wsize, gap))) THEN 0 ELSE d

ClipNegative(d) == IF Lt(d, 0) THEN 0 ELSE d

Quantize(d, wsize, gap, py3) ==
    ClipNegative(ClipHigh(QuantizeLoop(d, 1, wsize, gap, py3), wsize, gap))

\* One pass of: for k in range(0, wsize): IM = (IM == center[k]).choose(IM, k+1)
LevelStep(v, k, gap, py3) ==
    IF Eq(v, U(Center(k + 1, gap, py3))) THEN U(k + 1) ELSE v

\* The passes k = lo..hi in order.
RECURSIVE LevelLoop(_, _, _, _, _)
LevelLoop(v, lo, hi, gap, py3) ==
    IF lo > hi THEN v
    ELSE IF lo = hi THEN LevelStep(v, lo, gap, py3)
    ELSE LET mid  == (lo + hi) \div 2
             half == LevelLoop(v, lo, mid, gap, py3)
         IN  IF half = NaN THEN NaN       \* NaN == center is False
             ELSE LevelLoop(half, mid + 1, hi, gap, py3)

\* IM = (Idx_IM == k).choose(Idx_IM, 255+k); IM = (IM < 255+k).choose(IM, 0);
\* IM = (IM > 0).choose(IM, 1)
LevelMask(v, k) ==
    LET m1 == IF Eq(v, U(k)) THEN U(255 + k) ELSE v
        m2 == IF Lt(m1, U(255 + k)) THEN 0 ELSE m1
    IN  IF Gt(m2, 0) THEN 1 ELSE m2

\* c[0] = 1; c[k] = c[k-1]/(k+1); c = c/sum(c).  The weights are held as the
\* integers c[k] * niter!, whose sum is the divisor of the last line.
RECURSIVE Factorial(_)
Factorial(n) == IF n <= 1 THEN 1 ELSE n * Factorial(n - 1)

Weights(niter) == Tabulate(1, niter, LAMBDA k : Factorial(niter) \div Factorial(k))

\* bw = convolve2d(IM, ones((j, j)), "full")[1:, 1:], then bw[np.ix_(indx,
\* indy)] with indx = 0, j, 2j, .. < rows: the entry at (a, b) is the sum of
\* IM over rows a+2-j..a+1 and columns b+2-j..b+1 that lie in IM (0-based).
BoxCells(M, a, b, j) ==
    {i \in 1..M.h : i >= a + 3 - j /\ i <= a + 2}
        \X {l \in 1..M.w : l >= b + 3 - j /\ l <= b + 2}

BoxSum(M, a, b, j) ==
    LET box == BoxCells(M, a, b, j)
    IN  IF \E c \in box : M.a[c[1]][c[2]] = NaN THEN NaN
        ELSE Cardinality({c \in box : M.a[c[1]][c[2]] = 1})

GridIndex(len, j) == {x \in 0..(len - 1) : x % j = 0}

\* idx = (bw > 0).sum()
BoxCount(M, j) ==
    Cardinality({g \in GridIndex(M.h, j) \X GridIndex(M.w, j) :
                    Gt(BoxSum(M, g[1], g[2], j), 0)})

\* num[j-1]: the number log10(cnt) / log10(r/j), held by its three integers;
\* num[0] is log10(cnt) / log10(r).
NumTerm(cnt, r, j) == [cnt |-> cnt, r |-> r, j |-> j]

NumOf(M, r, j) ==
    IF j = 1 THEN NumTerm(PyMax1(SumArr(M)), r, 1)
    ELSE NumTerm(PyMax1(BoxCount(M, j)), r, j)

\* The caller's array, had the quantization assigned through a mask
\* (D[mask] = center) instead of D = mask.choose(D, center).
ArgumentAfter_inplace(im, Dq, aliased) == IF aliased THEN [im EXCEPT !.px = Dq] ELSE im

\* The caller's array when compute() ends.  With nlevels_avg == 1 and no
\* rescaling D = im binds D to the caller's array, and the slice of line 417
\* is a view of it; every .choose() then allocates its result, so the array
\* the caller passed is never written.
ArgumentAfter(im, Dq, aliased) == im

\* The body of compute() from the quantization on, given D.
BoxCounting(b, me, D) ==
    LET gap    == Gap(me.wsize)
        IMq    == MapArr(D, LAMBDA d : Quantize(d, me.wsize, gap, b.py3))
        r      == Max2(IMq.h, IMq.w)
        Idx_IM == MapArr(IMq, LAMBDA v : LevelLoop(v, 0, me.wsize - 1, gap, b.py3))
        masks  == Tabulate(1, me.wsize,
                      LAMBDA k : MapArr(Idx_IM, LAMBDA v : LevelMask(v, k)))
        MFS    == Tabulate(1, me.wsize, LAMBDA k :
                      Tabulate(1, me.niter, LAMBDA j : NumOf(masks[k], r, j)))
    IN  [Dq    |-> IMq.a,
         frame |-> [fn |-> "MFS.compute", gap |-> gap,
                    center |-> Tabulate(1, me.wsize, LAMBDA k : Center(k, gap, b.py3)),
                    D |-> IMq.a, r |-> r, c |-> Weights(me.niter),
                    Idx_IM |-> Idx_IM.a,
                    masks |-> Tabulate(1, me.wsize, LAMBDA k : masks[k].a)],
         ret   |-> Return(MFS)]

Failed(e) == [ret |-> Raise(e), Dq |-> <<>>, frame |-> [fn |-> "MFS.compute"]]

\* compute() on the pixels A, once the rank is settled.
MFSDescriptor_pixels(b, sl, me, A0) ==
    LET A   == Preprocess(A0)
        n   == me.nlevels_avg
        lev == DensityLevels(b, 2, n, A.h, A.w)
    IN  IF lev # "" THEN Failed(lev)
        ELSE LET D0 == IF n > 1 THEN Regression(A, sl) ELSE A
                 D  == Crop(D0, n - 1, D0.h - n + 1, n - 1, D0.w - n + 1)
             IN  BoxCounting(b, me, D)

\* An array that is not 2-D, when python -O has stripped the assert: a 0-d
\* array ends at max(im.shape), a 1-d one at im.shape[1], and one of more
\* dimensions at bw[0,:,:] = im + 1, which cannot be broadcast unless the
\* array has one entry.  Such an array runs like the 1 x 1 image of its
\* entry, up to convolve2d(IM, mask), which refuses it (nlevels_avg == 1
\* leaves D = im).
NotTwoD(b, sl, me, im) ==
    CASE im.ndim = 0 -> Failed("ValueError")
      [] im.ndim = 1 -> Failed("IndexError")
      [] im.ndim > 2 /\ \A d \in 1..im.ndim : im.shape[d] = 1 ->
             IF me.nlevels_avg = 1 /\ me.niter >= 2 THEN Failed("ValueError")
             ELSE MFSDescriptor_pixels(b, sl, me, [h |-> 1, w |-> 1, a |-> im.px])
      [] OTHER       -> Failed("ValueError")

MFSDescriptor_body(b, sl, me, im) ==
    IF im.ndim # 2
    THEN (IF b.optimize THEN NotTwoD(b, sl, me, im) ELSE Failed("AssertionError"))
    ELSE MFSDescriptor_pixels(b, sl, me, Pixels(im))

\* compute(): the outcome, the locals and the two objects the caller holds.
MFSDescriptor_compute(b, sl, me, im) ==
    LET out     == MFSDescriptor_body(b, sl, me, im)
        aliased == /\ out.ret.kind = "return"
                   /\ me.nlevels_avg = 1
                   /\ Preprocess(Pixels(im)) = Pixels(im)
    IN  [ret |-> out.ret, frame |-> out.frame,
         self |-> me,
         im |-> ArgumentAfter(im, out.Dq, aliased)]

(***************************************************************************)
(* The caller: it loads an array, and calls compute() on the array it      *)
(* holds.  first remembers the first compute() call of the run, and       *)
(* whether another one followed it.                                        *)
(***************************************************************************)
Checker(h, w, a, b) == Arr(h, w, LAMBDA i, j : IF (i + j) % 2 = 0 THEN a ELSE b)

Images(dims, vals) ==
    {Image2D(Checker(h, w, a, b)) : h \in dims, w \in dims, a \in vals, b \in vals}

Remember(f, im, r) ==
    IF f.set THEN [f EXCEPT !.later = TRUE]
    ELSE [set |-> TRUE, im |-> im, ret |-> r, later |-> FALSE]

MFSCompute ==
    /\ self.cls = "MFS"
    /\ \E out \in {MFSDescriptor_compute(build, slope, self, image)} :
           /\ call' = [fn |-> "compute", cls |-> "MFS", im |-> image]
           /\ ret' = out.ret
           /\ frame' = out.frame
           /\ self' = out.self
           /\ image' = out.im
           /\ first' = Remember(first, image, out.ret)
    /\ UNCHANGED <<build, slope>>

(***************************************************************************)
(* SpecMFS: MFSDescriptor.compute over every configuration and small       *)
(* images.                                                                 *)
(***************************************************************************)
MaxLevels == 5      \* levels_to_average in 1..MaxLevels

MaxWindow == 3      \* window_size in 1..MaxWindow

MaxIter == 3        \* iterations in 1..MaxIter

MaxDim == 3         \* images of 1..MaxDim rows and columns

MFSConfigs ==
    {MFSDescriptor(n, w, t) : n \in 1..MaxLevels, w \in 1..MaxWindow, t \in 1..MaxIter}

\* grey values: 0, a fraction below 1, mid-grey, white
GreyValues == {0, 1, U(100), U(255)}

\* regression results: below the range, inside a bin, between two bins, above
Slopes ==
    {[b \in BOOLEAN |-> -U(1)],
     [b \in BOOLEAN |-> IF b THEN U(200) ELSE U(50)],
     [b \in BOOLEAN |-> IF b THEN U(300) ELSE U(84) + 1]}

InitMFS ==
    /\ build \in {b \in Builds : ~b.optimize}      \* every image is 2-D: no assert fails
    /\ slope \in Slopes
    /\ self \in MFSConfigs
    /\ image \in Images(1..MaxDim, GreyValues)
    /\ call = [fn |-> "none"]
    /\ ret = NoCall
    /\ frame = NoFrame
    /\ first = NoFirst

NextMFS == MFSCompute

SpecMFS == InitMFS /\ [][NextMFS]_vars

(***************************************************************************)
(* C3.  For any 2-D image of height and width >= 1 and any configuration   *)
(* with levels_to_average, window_size, iterations >= 1, compute() returns *)
(* a vector of exactly window_size entries, entry k being the value of     *)
(* quantization level k.                                                   *)
(***************************************************************************)
IndexMap == [h |-> Len(frame.Idx_IM),
             w |-> IF Len(frame.Idx_IM) = 0 THEN 0 ELSE Len(frame.Idx_IM[1]),
             a |-> frame.Idx_IM]

PixelsOfLevel(k) == {c \in Cells(IndexMap) : IndexMap.a[c[1]][c[2]] = U(k)}

C3_OutputShape ==
    (call.fn = "compute" /\ call.cls = "MFS" /\ call.im.ndim = 2)
        => /\ ret.kind = "return"
           /\ Len(ret.val) = self.wsize
           /\ \A k \in 1..self.wsize :
                  ret.val[k][1].cnt =
                      IF HasNaN(IndexMap) THEN NaN
                      ELSE Max2(1, Cardinality(PixelsOfLevel(k)))

(***************************************************************************)
(* SpecQuant: the quantization and the level sets, for every window_size   *)
(* up to MaxQuantWindow.  nlevels_avg = 1 makes D the image itself; the    *)
(* second pixel is white, so that no image is rescaled.                    *)
(***************************************************************************)
MaxQuantWindow == 256

DensityValues ==
    {-U(1), 1, U(25), U(255), U(257) + 1}

QuantImage(d) == Image2D(Arr(1, 2, LAMBDA i, j : IF j = 1 THEN d ELSE U(grayscale_hi)))

InitQuant ==
    /\ build \in {b \in Builds : ~b.optimize /\ b.float_index}   \* 2-D images, one level
    /\ slope = NoSlope
    /\ self \in {MFSDescriptor(1, w, 1) : w \in 1..MaxQuantWindow}
    /\ image \in {QuantImage(d) : d \in DensityValues}
    /\ call = [fn |-> "none"]
    /\ ret = NoCall
    /\ frame = NoFrame
    /\ first = NoFirst

SpecQuant == InitQuant /\ [][NextMFS]_vars

\* The density of pixel (1, j) of the image compute() was called on.
Density(j) == call.im.px[1][j]

AfterQuant == call.fn = "compute" /\ call.cls = "MFS" /\ ret.kind = "return"

(***************************************************************************)
(* C9.  The bin width is gap = ceil(256/window_size); the bins             *)
(* k = 1..window_size are the ranges [(k-1)*gap, k*gap-1]; every density d *)
(* with 0 <= d <= 255 that falls in bin k is replaced by                   *)
(* round((bin_min+bin_max)/2); only values above the last bin and negative *)
(* values are mapped to 0.                                                 *)
(***************************************************************************)
ClaimedGap(wsize) == CeilDiv(256, wsize)

InBin(d, k, gap) == U(bin_min(k, gap)) <= d /\ d <= U(bin_max(k, gap))

C9_Quantization ==
    AfterQuant =>
        LET g == ClaimedGap(self.wsize)
        IN  /\ frame.gap = g
            /\ \A j \in 1..2 : \A k \in 1..self.wsize :
                   (0 <= Density(j) /\ Density(j) <= U(255) /\ InBin(Density(j), k, g))
                       => frame.D[1][j] = U(Center(k, g, build.py3))
            /\ \A j \in 1..2 :
                   (frame.D[1][j] = 0 /\ Density(j) # 0)
                       => \/ Density(j) < 0
                          \/ Density(j) > U(bin_max(self.wsize, g))
                          \/ \E k \in 1..self.wsize :
                                 InBin(Density(j), k, g) /\ Center(k, g, build.py3) = 0

(***************************************************************************)
(* C10.  A pixel whose quantized value is the center of bin k (and is not  *)
(* the 0 that quantization gives to out-of-range pixels) ends with index k *)
(* in the index map; a pixel that quantization mapped to 0 is in no level  *)
(* set; the mask of level k selects exactly the pixels of index k, and     *)
(* every pixel is in at most one level set.  Stated for the densities in   *)
(* [0, 255].                                                               *)
(***************************************************************************)
InMask(k, j) == frame.masks[k][1][j] = 1

InRange(j) == 0 <= Density(j) /\ Density(j) <= U(grayscale_hi)

C10_LevelSets ==
    AfterQuant =>
        \A j \in {i \in 1..2 : InRange(i)} :
            /\ \A k \in 1..self.wsize :
                   (/\ frame.D[1][j] # 0
                    /\ frame.D[1][j] = U(Center(k, frame.gap, build.py3)))
                       => frame.Idx_IM[1][j] = U(k)
            /\ frame.D[1][j] = 0 => \A k \in 1..self.wsize : ~InMask(k, j)
            /\ \A k \in 1..self.wsize : InMask(k, j) <=> frame.Idx_IM[1][j] = U(k)
            /\ Cardinality({k \in 1..self.wsize : InMask(k, j)}) <= 1

(***************************************************************************)
(* SpecFlat: the constant images of FlatSide x FlatSide pixels, one for    *)
(* every FlatStep-th grey value, with window_size = FlatWindow,            *)
(* levels_to_average = 1, iterations = 1.                                  *)
(***************************************************************************)
FlatSide == 64

FlatWindow == 5

FlatStep == 5

FlatValues == {v \in grayscale_lo..grayscale_hi : v % FlatStep = 0}

FlatImage(v) == Image2D(Arr(FlatSide, FlatSide, LAMBDA i, j : U(v)))

InitFlat ==
    \* 2-D images, one level; the bin centers are no ties of round()
    /\ build \in {b \in Builds : ~b.optimize /\ b.float_index /\ ~b.py3}
    /\ slope = NoSlope
    /\ self = MFSDescriptor(1, FlatWindow, 1)
    /\ image \in {FlatImage(v) : v \in FlatValues}
    /\ call = [fn |-> "none"]
    /\ ret = NoCall
    /\ frame = NoFrame
    /\ first = NoFirst

SpecFlat == InitFlat /\ [][NextMFS]_vars

(***************************************************************************)
(* C6.  For a constant 64x64 image of a grey value in 0..255, with         *)
(* window_size 5, compute() gives 5 entries; exactly one level set is not  *)
(* empty, it holds all 4096 pixels and its entry is not zero; the other    *)
(* four are empty and their entries are log10(max(1,0))/log10(64) = 0.     *)
(***************************************************************************)
\* log10(cnt)/log10(r/j) is 0 or not: the numerator is 0 for cnt = 1
EntryIsZero(t) == t.cnt = 1 /\ t.r # t.j

EntryIsNonZero(t) == t.cnt # NaN /\ t.cnt > 1 /\ t.r # t.j

LevelIsFull(k) == \A c \in Cells(IndexMap) : frame.masks[k][c[1]][c[2]] = 1

LevelIsEmpty(k) == \A c \in Cells(IndexMap) : frame.masks[k][c[1]][c[2]] = 0

C6_FlatImage ==
    (call.fn = "compute" /\ call.cls = "MFS")
        => /\ ret.kind = "return"
           /\ Len(ret.val) = FlatWindow
           /\ \E k \in 1..FlatWindow :
                  /\ LevelIsFull(k)
                  /\ ret.val[k][1].cnt = FlatSide * FlatSide
                  /\ EntryIsNonZero(ret.val[k][1])
                  /\ \A o \in (1..FlatWindow) \ {k} :
                         LevelIsEmpty(o) /\ EntryIsZero(ret.val[o][1])

(***************************************************************************)
(* Arrays that are not 2-D: the code looks at their ndim and shape, and at *)
(* the entry of an array that has only one.                                *)
(***************************************************************************)
ArrayND(shape) == [ndim |-> Len(shape), shape |-> shape, px |-> <<>>]

\* The 3-D array of one entry, which broadcasts like a 1 x 1 image.
Single(v) == [ndim |-> 3, shape |-> <<1, 1, 1>>, px |-> <<<<v>>>>]

(***************************************************************************)
(* HistDescriptor                                                          *)
(***************************************************************************)
HistDescriptor(lo, hi, nbins) ==
    [cls |-> "Hist", interval |-> <<lo, hi>>, nbins |-> nbins]

\* np.histogram(image, bins=nbins, range=interval): nbins bins of equal width,
\* the last one closed on the right; values outside the range are not counted.
BinOf(v, lo, hi, nbins) ==
    IF v = NaN \/ v < U(lo) \/ v > U(hi) THEN 0
    ELSE IF v = U(hi) THEN nbins
    ELSE ((v - U(lo)) * nbins) \div U(hi - lo) + 1

\* normed=True: entry k is count[k] / (counted * width), held by its integers.
Histogram(A, lo, hi, nbins) ==
    LET counted == {c \in Cells(A) : BinOf(A.a[c[1]][c[2]], lo, hi, nbins) # 0}
    IN  Tabulate(1, nbins, LAMBDA k :
            [cnt |-> Cardinality({c \in counted :
                                     BinOf(A.a[c[1]][c[2]], lo, hi, nbins) = k}),
             of  |-> Cardinality(counted)])

HistDescriptor_compute(me, im) ==
    IF im.ndim # 2
    THEN [ret |-> Raise("ValueError"), frame |-> [fn |-> "Hist.compute"], self |-> me, im |-> im]
    ELSE [ret   |-> Return(Histogram(Pixels(im), me.interval[1], me.interval[2], me.nbins)),
          frame |-> [fn |-> "Hist.compute"], self |-> me, im |-> im]

HistCompute ==
    /\ self.cls = "Hist"
    /\ \E out \in {HistDescriptor_compute(self, image)} :
           /\ call' = [fn |-> "compute", cls |-> "Hist", im |-> image]
           /\ ret' = out.ret
           /\ frame' = out.frame
           /\ self' = out.self
           /\ image' = out.im
           /\ first' = Remember(first, image, out.ret)
    /\ UNCHANGED <<build, slope>>

(***************************************************************************)
(* compactness()                                                           *)
(***************************************************************************)
\* prop = np.linspace(0.1, 1.0, 10): prop[i] is (i+1)/10
nprop == 10

prop10(i) == i + 1

\* The two tables, in units of 1e-9 (rounded); index i is entry i+1.
emp_distrib_mean ==
    <<4422, 1101812, 42247117, 348935876, 1004600873, 1439767582,
      1411574196, 1249793515, 1111105842, 1000000000>>

emp_distrib_std ==
    <<27360, 511254, 3885638, 12029873, 13957075, 5724625, 2875080, 2370921,
      1501896, 0>>

\* _img = (_img != 0).astype(np.uint8); NaN != 0 is True
Binarize(A) == MapArr(A, LAMBDA v : IF v # 0 THEN 1 ELSE 0)

disk_radius == 3

\* skimage.morphology.disk(r): the offsets within distance r of the centre
Disk(r) == {d \in (-r..r) \X (-r..r) : d[1] * d[1] + d[2] * d[2] <= r * r}

\* skimage.filter.rank.median on a 0/1 image: the neighbourhood is the part of
\* the footprint inside the image; the kernel walks the grey levels upward and
\* returns the first at which the running count exceeds half the population,
\* so the result is 0 iff the zeros are more than half.
MedianAt(A, i, j, r) ==
    LET nb == {c \in Cells(A) : <<c[1] - i, c[2] - j>> \in Disk(r)}
        h1 == Cardinality({c \in nb : A.a[c[1]][c[2]] = 1})
    IN  IF 2 * h1 >= Cardinality(nb) THEN 1 ELSE 0

Median(A, r) == Arr(A.h, A.w, LAMBDA i, j : MedianAt(A, i, j, r))

\* np.abs(prop - pwp)[i] with pwp = swp/size, times 10*size
Distance(i, swp, size) == Abs(prop10(i) * size - nprop * swp)

\* np.argmin(np.abs(prop - pwp)) with pwp = floor(swp/size): the quotient
\* Python 2 gives two integers without true division.
ArgMin_floordiv(swp, size) ==
    LET pwp == swp \div size
    IN  {i \in 0..(nprop - 1) :
            \A l \in 0..(nprop - 1) : Abs(prop10(i) - nprop * pwp) <= Abs(prop10(l) - nprop * pwp)}

\* np.argmin(np.abs(prop - pwp)): the first index of the least entry.  When
\* pwp is midway between two proportions the two entries differ by the
\* rounding of prop and of the subtraction: either index can be the result.
ArgMin(swp, size) ==
    {i \in 0..(nprop - 1) :
        \A l \in 0..(nprop - 1) : Distance(i, swp, size) <= Distance(l, swp, size)}

\* The indices compactness() can select on an array.
Selected(im) ==
    IF im.ndim # 2 \/ im.shape[1] * im.shape[2] = 0 THEN {0}
    ELSE ArgMin(SumArr(Binarize(Pixels(im))), im.shape[1] * im.shape[2])

\* cf = (cf - emp_distrib_mean[k]) / emp_distrib_std[k], held by its parts:
\* the quotient num/den and the two table entries.
Standardized(num, den, k) ==
    [num |-> num, den |-> den, mean |-> emp_distrib_mean[k + 1], std |-> emp_distrib_std[k + 1]]

compactness(im, k) ==
    IF im.ndim # 2
    THEN [ret |-> Raise("ValueError"), frame |-> [fn |-> "compactness"]]
    ELSE LET img == Binarize(Pixels(im))
             med == Median(img, disk_radius)
             swp == SumArr(img)
             cf  == [num |-> SumArr(med), den |-> swp]
         IN  [ret   |-> Return(Standardized(cf.num, cf.den, k)),
              frame |-> [fn |-> "compactness", img |-> img.a, med |-> med.a,
                         swp |-> swp, size |-> img.h * img.w, cf |-> cf, k |-> k]]

Compactness ==
    /\ \E k \in Selected(image) : \E out \in {compactness(image, k)} :
           /\ call' = [fn |-> "compactness", im |-> image]
           /\ ret' = out.ret
           /\ frame' = out.frame
    /\ UNCHANGED <<build, slope, self, image, first>>

(***************************************************************************)
(* SpecNdim: MFSDescriptor.compute, HistDescriptor.compute and             *)
(* compactness() on arrays of 0 to 3 dimensions.                           *)
(***************************************************************************)
MaxAxis == 2        \* every axis of an array has 1..MaxAxis entries

Arrays ==
    {ArrayND(<<>>)}
        \cup {ArrayND(<<n>>) : n \in 1..MaxAxis}
        \cup {ArrayND(<<l, m, n>>) : l \in 1..MaxAxis, m \in 1..MaxAxis, n \in 2..MaxAxis}
        \cup {Single(v) : v \in {0, U(255)}}
        \cup Images(1..MaxAxis, {0, U(255)})

InitNdim ==
    /\ build \in {b \in Builds : b.float_index /\ ~b.py3}
    /\ slope = NoSlope
    /\ self \in {MFSDescriptor(1, 2, 1), HistDescriptor(0, 1, 10)}
    /\ image \in Arrays
    /\ call = [fn |-> "none"]
    /\ ret = NoCall
    /\ frame = NoFrame
    /\ first = NoFirst

NextNdim == MFSCompute \/ HistCompute \/ Compactness

SpecNdim == InitNdim /\ [][NextNdim]_vars

(***************************************************************************)
(* C2.  On an array whose number of dimensions is not 2,                   *)
(* MFSDescriptor.compute, HistDescriptor.compute and compactness() each    *)
(* fail with InvalidArgument and return no result.                         *)
(***************************************************************************)
C2_NotTwoDRejected ==
    (/\ \/ call.fn = "compute" /\ call.cls \in {"MFS", "Hist"}
        \/ call.fn = "compactness"
     /\ call.im.ndim # 2)
        => (ret.kind = "raise" /\ ret.exc = InvalidArgument)

(***************************************************************************)
(* SpecCompact: compactness() on the images of up to MaxSide rows and      *)
(* columns whose first n pixels, in row order, are white.                  *)
(***************************************************************************)
MaxSide == 4

\* white pixels hold a fraction, or 255
WhiteValues == {1, U(255)}

Ramp(h, w, n, v) == Arr(h, w, LAMBDA i, j : IF (i - 1) * w + j <= n THEN v ELSE 0)

InitCompact ==
    /\ build = DefaultBuild
    /\ slope = NoSlope
    /\ self = NoSelf
    /\ image \in {Image2D(Ramp(h, w, n, v)) :
                     h \in 1..MaxSide, w \in 1..MaxSide,
                     n \in 0..(MaxSide * MaxSide), v \in WhiteValues}
    /\ call = [fn |-> "none"]
    /\ ret = NoCall
    /\ frame = NoFrame
    /\ first = NoFirst

NextCompact == Compactness

SpecCompact == InitCompact /\ [][NextCompact]_vars

(***************************************************************************)
(* C5.  On a 2-D image compactness() selects an index k of the table such  *)
(* that no proportion (i+1)/10 is nearer to proportion_white than          *)
(* (k+1)/10.  On an image whose pixels are all nonzero it selects index 9, *)
(* and the coefficient before standardization is                           *)
(* sum(median_filtered) / size.                                            *)
(***************************************************************************)
White(im) == {c \in Cells(Pixels(im)) : im.px[c[1]][c[2]] # 0}

Size(im) == im.shape[1] * im.shape[2]

\* |(i+1)/10 - white/size| <= |(l+1)/10 - white/size|, cleared of fractions
Nearer(i, l, white, size) ==
    Abs((i + 1) * size - 10 * white) <= Abs((l + 1) * size - 10 * white)

MedianSum == Cardinality({c \in Cells(Pixels(call.im)) : frame.med[c[1]][c[2]] = 1})

C5_Compactness ==
    (call.fn = "compactness" /\ call.im.ndim = 2)
        => /\ ret.kind = "return"
           /\ \A l \in 0..9 :
                  Nearer(frame.k, l, Cardinality(White(call.im)), Size(call.im))
           /\ ret.val.mean = emp_distrib_mean[frame.k + 1]
           /\ Cardinality(White(call.im)) = Size(call.im)
                  => /\ frame.k = 9
                     /\ ret.val.num = MedianSum
                     /\ ret.val.den = Size(call.im)

C5_AllWhiteSelected ==
    /\ call.fn = "compactness"
    /\ Size(call.im) >= 4
    /\ Cardinality(White(call.im)) = Size(call.im)
    /\ frame.k = 9
    /\ ret.kind = "return"

(***************************************************************************)
(* C12.  On a 2-D image with at least one nonzero pixel compactness()      *)
(* divides by no zero: sum(binary), the divisor of the coefficient, and    *)
(* emp_distrib_std[k], the divisor of the standardization, are both        *)
(* nonzero.                                                                *)
(***************************************************************************)
C12_NoZeroDivisor ==
    (call.fn = "compactness" /\ call.im.ndim = 2 /\ White(call.im) # {})
        => /\ ret.kind = "return"
           /\ ret.val.den # 0
           /\ ret.val.std # 0

(***************************************************************************)
(* GLCMDescriptor                                                          *)
(***************************************************************************)
GLCMDescriptor(wsize, which) == [cls |-> "GLCM", wsize_ |-> wsize, which_feats_ |-> which]

\* image[y0:y1, x0:x1]: the rows and columns the slice takes
Tile(H, W, y0, y1, x0, x1) == [rows |-> PySlice(H, y0, y1), cols |-> PySlice(W, x0, x1)]

\* The tiles in the order of the two loops: w, h = image.shape binds w to the
\* number of rows and h to the number of columns; x runs over nw = int(w/wsize)
\* values and indexes the columns, y over nh = int(h/wsize) values and indexes
\* the rows.
Tiles(H, W, wsize) ==
    LET w  == H
        h  == W
        nw == w \div wsize
        nh == h \div wsize
    IN  Tabulate(0, nw * nh - 1, LAMBDA t :
            LET x  == t \div nh
                y  == t % nh
                x0 == x * wsize
                y0 == y * wsize
            IN  Tile(H, W, y0, y0 + wsize, x0, x0 + wsize))

\* greycomatrix() takes image.max() (image.min() in older releases), which
\* numpy refuses on an array without entries.
EmptyTile(t) == t.rows.n = 0 \/ t.cols.n = 0

\* res[f] = ft[k, :]: one value per tile, the value of f on that tile
GLCMDescriptor_compute(b, me, im) ==
    IF im.ndim # 2
    THEN (IF b.optimize
          THEN [ret |-> Raise("ValueError"), tiles |-> <<>>]     \* w, h = image.shape
          ELSE [ret |-> Raise("AssertionError"), tiles |-> <<>>])
    ELSE LET ts == Tiles(im.shape[1], im.shape[2], me.wsize_)
         IN  IF \E t \in 1..Len(ts) : EmptyTile(ts[t])
             THEN [ret |-> Raise("ValueError"),
                   tiles |-> SubSeq(ts, 1, (CHOOSE t \in 1..Len(ts) :
                                 /\ EmptyTile(ts[t])
                                 /\ \A u \in 1..(t - 1) : ~EmptyTile(ts[u])) - 1)]
             ELSE [ret   |-> Return([f \in me.which_feats_ |-> ts]),
                   tiles |-> ts]

GLCMCompute ==
    /\ self.cls = "GLCM"
    /\ \E out \in {GLCMDescriptor_compute(build, self, image)} :
           /\ call' = [fn |-> "compute", cls |-> "GLCM", im |-> image]
           /\ ret' = out.ret
           /\ frame' = [fn |-> "GLCM.compute", tiles |-> out.tiles]
           /\ first' = Remember(first, image, out.ret)
    /\ UNCHANGED <<build, slope, self, image>>

(***************************************************************************)
(* SpecGLCM: GLCMDescriptor.compute on the images of up to MaxHeight rows  *)
(* and columns, with windows up to MaxTile.                                *)
(***************************************************************************)
MaxHeight == 10

MaxTile == 4

InitGLCM ==
    /\ build \in {b \in Builds : ~b.optimize /\ b.float_index /\ ~b.py3}
    /\ slope = NoSlope
    /\ self \in {GLCMDescriptor(ws, FeatNames) : ws \in 1..MaxTile}
    /\ image \in {Image2D(Arr(H, W, LAMBDA i, j : 0)) : H \in 1..MaxHeight, W \in 1..MaxHeight}
    /\ call = [fn |-> "none"]
    /\ ret = NoCall
    /\ frame = NoFrame
    /\ first = NoFirst

NextGLCM == GLCMCompute

SpecGLCM == InitGLCM /\ [][NextGLCM]_vars

(***************************************************************************)
(* C4.  On an H x W image, compute() processes                             *)
(* floor(H/wsize) * floor(W/wsize) tiles, every one a complete             *)
(* wsize x wsize block inside the image, no two of them overlapping, and   *)
(* returns one value per tile for each requested feature.                  *)
(***************************************************************************)
TileCells(t) ==
    ((t.rows.lo + 1)..(t.rows.lo + t.rows.n)) \X ((t.cols.lo + 1)..(t.cols.lo + t.cols.n))

C4_Tiling ==
    (call.fn = "compute" /\ call.cls = "GLCM")
        => LET H  == call.im.shape[1]
               W  == call.im.shape[2]
               ws == self.wsize_
               n  == (H \div ws) * (W \div ws)
           IN  /\ ret.kind = "return"
               /\ Len(frame.tiles) = n
               /\ \A t \in 1..Len(frame.tiles) :
                      /\ frame.tiles[t].rows.n = ws
                      /\ frame.tiles[t].cols.n = ws
               /\ \A t, u \in 1..Len(frame.tiles) :
                      t # u => TileCells(frame.tiles[t]) \cap TileCells(frame.tiles[u]) = {}
               /\ \A f \in self.which_feats_ : Len(ret.val[f]) = n

(***************************************************************************)
(* GaborDescriptor and LBPDescriptor.  A step of compute() can fail: a     *)
(* library call refuses its argument (an image that is not 2-D is refused  *)
(* by the first convolution and by local_binary_pattern) or runs out of    *)
(* memory.  fault is the step that fails, 0 if none does.                  *)
(***************************************************************************)
GaborDescriptor(nk) == [cls |-> "Gabor", nk |-> nk]

LBPDescriptor(radius) ==
    [cls |-> "LBP", radius_ |-> radius, npoints_ |-> radius * 8, nhbins_ |-> radius * 8 + 2]

\* Steps of GaborDescriptor.compute: 1 is img_as_float, k + 1 the pass of the
\* loop on kernel k.
GaborFault(me, im, fault) ==
    IF fault = 1 THEN 1
    ELSE IF im.ndim # 2 THEN 2
    ELSE fault

\* ft = np.zeros(2*nk); ft[k] = flt.mean(); ft[k+nk] = flt.var(): the entries
\* of the kernels before kernel done + 1 are set.
GaborFt(nk, done) ==
    Tabulate(1, 2 * nk, LAMBDA i :
        IF i <= nk THEN (IF i <= done THEN "mean" ELSE "zero")
        ELSE (IF i - nk <= done THEN "var" ELSE "zero"))

\* The except clause prints and falls through to return ft; ft is unbound if
\* img_as_float failed.
GaborDescriptor_compute(me, im, fault) ==
    LET f == GaborFault(me, im, fault)
    IN  IF f = 0 THEN Return(GaborFt(me.nk, me.nk))
        ELSE IF f = 1 THEN Raise("UnboundLocalError")
        ELSE Return(GaborFt(me.nk, f - 2))

\* Steps of LBPDescriptor.compute: 1 is local_binary_pattern, 2 np.histogram.
LBPFault(me, im, fault) == IF im.ndim # 2 THEN 1 ELSE fault

\* hist is unbound if either step failed.
LBPDescriptor_compute(me, im, fault) ==
    IF LBPFault(me, im, fault) = 0
    THEN Return(Tabulate(1, me.nhbins_, LAMBDA i : "freq"))
    ELSE Raise("UnboundLocalError")

GaborCompute ==
    /\ self.cls = "Gabor"
    /\ \E fault \in 0..(self.nk + 1) :
           /\ call' = [fn |-> "compute", cls |-> "Gabor", im |-> image,
                       fault |-> GaborFault(self, image, fault)]
           /\ ret' = GaborDescriptor_compute(self, image, fault)
           /\ frame' = [fn |-> "Gabor.compute"]
           /\ first' = Remember(first, image, GaborDescriptor_compute(self, image, fault))
    /\ UNCHANGED <<build, slope, self, image>>

LBPCompute ==
    /\ self.cls = "LBP"
    /\ \E fault \in 0..2 :
           /\ call' = [fn |-> "compute", cls |-> "LBP", im |-> image,
                       fault |-> LBPFault(self, image, fault)]
           /\ ret' = LBPDescriptor_compute(self, image, fault)
           /\ frame' = [fn |-> "LBP.compute"]
           /\ first' = Remember(first, image, LBPDescriptor_compute(self, image, fault))
    /\ UNCHANGED <<build, slope, self, image>>

(***************************************************************************)
(* SpecFail: GaborDescriptor.compute and LBPDescriptor.compute, with and   *)
(* without a failing step.                                                 *)
(***************************************************************************)
MaxKernels == 3

MaxRadius == 2

InitFail ==
    /\ build \in {b \in Builds : b.float_index /\ ~b.py3}
    /\ slope = NoSlope
    /\ self \in {GaborDescriptor(nk) : nk \in 1..MaxKernels}
                    \cup {LBPDescriptor(r) : r \in 1..MaxRadius}
    /\ image \in Arrays
    /\ call = [fn |-> "none"]
    /\ ret = NoCall
    /\ frame = NoFrame
    /\ first = NoFirst

NextFail == GaborCompute \/ LBPCompute

SpecFail == InitFail /\ [][NextFail]_vars

(***************************************************************************)
(* C7.  If a step of GaborDescriptor.compute or LBPDescriptor.compute      *)
(* fails, the call raises an error and returns no feature vector.          *)
(***************************************************************************)
C7_FailurePropagates ==
    (call.fn = "compute" /\ call.cls \in {"Gabor", "LBP"} /\ call.fault # 0)
        => ret.kind = "raise"

(***************************************************************************)
(* SpecPure: a caller that loads images and calls compute() on one         *)
(* MFSDescriptor, HistDescriptor or GLCMDescriptor instance, any number of *)
(* times.                                                                  *)
(***************************************************************************)
PureLevels == 2

PureWindow == 2

PureIter == 2

PureDim == 2

PureImages == Images(1..PureDim, {0, U(100)})

LoadImage ==
    \E im \in PureImages :
        /\ image' = im
        /\ call' = [fn |-> "load"]
        /\ ret' = NoCall
        /\ frame' = NoFrame
        /\ UNCHANGED <<build, slope, self, first>>

InitPure ==
    /\ build \in {b \in Builds : ~b.optimize /\ b.float_index}
    /\ slope = [b \in BOOLEAN |-> IF b THEN U(200) ELSE U(50)]
    /\ self \in {MFSDescriptor(n, w, t) :
                    n \in 1..PureLevels, w \in 1..PureWindow, t \in 1..PureIter}
                    \cup {HistDescriptor(0, 1, 10), GLCMDescriptor(1, FeatNames)}
    /\ image \in PureImages
    /\ call = [fn |-> "none"]
    /\ ret = NoCall
    /\ frame = NoFrame
    /\ first = NoFirst

NextPure == LoadImage \/ MFSCompute \/ HistCompute \/ GLCMCompute

SpecPure == InitPure /\ [][NextPure]_vars

(***************************************************************************)
(* C8.  A compute() call changes neither the fields of the instance nor    *)
(* the caller's image, and in every state after a compute() call on the    *)
(* image of the first call of the run, the result is that of the first     *)
(* call.                                                                   *)
(***************************************************************************)
ComputeStep == call'.fn = "compute"

SameAsFirst ==
    (call.fn = "compute" /\ first.set /\ first.im = call.im) => ret = first.ret

BoxDim == 3         \* masks of 1..BoxDim rows and columns

BoxIter == 4        \* iterations in 1..BoxIter: the scales j = 2..BoxIter

MaskImage(h, w, S) ==
    Image2D(Arr(h, w, LAMBDA i, j : IF <<i, j>> \in S THEN U(100) ELSE U(grayscale_hi)))

BoxImages(n) ==
    UNION {{MaskImage(h, w, S) : S \in SUBSET ((1..h) \X (1..w))} :
              h \in 1..n, w \in 1..n}

InitBox ==
    /\ build \in {b \in Builds : ~b.optimize /\ b.float_index}   \* 2-D images, one level
    /\ slope = NoSlope
    /\ self \in {MFSDescriptor(1, 1, t) : t \in 1..BoxIter}
    /\ image \in BoxImages(BoxDim)
    /\ call = [fn |-> "none"]
    /\ ret = NoCall
    /\ frame = NoFrame
    /\ first = NoFirst

SpecBox == InitBox /\ [][NextMFS]_vars

\* The mask of level k that compute() counted the boxes of.
Mask(k) == [h |-> call.im.shape[1], w |-> call.im.shape[2], a |-> frame.masks[k]]

SetPixels(M) == {c \in Cells(M) : M.a[c[1]][c[2]] = 1}

Grid(M, j) == GridIndex(M.h, j) \X GridIndex(M.w, j)

(***************************************************************************)
(* C11.  For every level k and every scale j in 2..iterations, the boxes   *)
(* summed at the points of the stride-j grid do not overlap and together   *)
(* hold every pixel of the mask; the count of the scale is 1 or more when  *)
(* the mask has a set pixel, and is never more than the number of set      *)
(* pixels; the entry of the scale is computed from max(count, 1).          *)
(***************************************************************************)
C11_BoxPartition ==
    (call.fn = "compute" /\ call.cls = "MFS" /\ ret.kind = "return")
        => \A k \in 1..self.wsize : \A j \in 2..self.niter :
               LET M == Mask(k)
               IN  /\ \A c \in Cells(M) :
                          \E g \in Grid(M, j) : c \in BoxCells(M, g[1], g[2], j)
                   /\ \A g1 \in Grid(M, j) : \A g2 \in Grid(M, j) :
                          g1 # g2 => BoxCells(M, g1[1], g1[2], j)
                                         \cap BoxCells(M, g2[1], g2[2], j) = {}
                   /\ SetPixels(M) # {} => BoxCount(M, j) >= 1
                   /\ BoxCount(M, j) <= Cardinality(SetPixels(M))
                   /\ ret.val[k][j].cnt = Max2(BoxCount(M, j), 1)

====
